---- MODULE Spec2Model ----
(***************************************************************************)
(* State-machine model of the PoPS spread engine (simulation.hpp) over the *)
(* Raster grid container (raster.hpp).                                     *)
(*                                                                         *)
(* The Simulation object holds rows_, cols_, model_type_, latency_period_  *)
(* and the random engine; every grid is owned by the caller and handed to  *)
(* the member functions by reference.  The variables below are those       *)
(* caller-owned grids; each action is one call of one member function,     *)
(* with the random engine's draws and the call's read-only arguments       *)
(* chosen nondeterministically from small sets.                            *)
(***************************************************************************)
EXTENDS Integers, Sequences, FiniteSets, TLC

VARIABLES
    model_type,               \* Simulation::model_type_
    latency_period,           \* Simulation::latency_period_
    exposed,                  \* std::vector<IntegerRaster> exposed (index 1 is the oldest)
    infected,                 \* IntegerRaster infected
    susceptible,              \* IntegerRaster susceptible
    total_plants,             \* IntegerRaster total_plants
    mortality_tracker_vector, \* std::vector<IntegerRaster> mortality_tracker_vector
    mortality,                \* IntegerRaster mortality (cumulative)
    dispersers,               \* IntegerRaster dispersers (output of generate)
    outside_dispersers,       \* std::vector<std::tuple<int, int>> outside_dispersers
    call,                     \* the last member function called, with its arguments
    calls                     \* how many member functions have been called

vars == <<model_type, latency_period, exposed, infected, susceptible, total_plants,
          mortality_tracker_vector, mortality, dispersers, outside_dispersers, call, calls>>

----------------------------------------------------------------------------
(* Bounds of the model *)

\* hosts per cell in the initial grids
MaxPlants == 2
\* years of mortality cohorts kept by the caller
MaxYears == 1
\* largest single draw of a counting-process (Poisson) sample
MaxPoisson == 1
\* most dispersers one call of disperse is given (over the whole grid)
MaxDispersers == 2
\* most entries the outside_dispersers vector is let grow to
MaxOutside == 1
\* largest value a mortality cohort cell is let grow to
MaxTrack == 4
\* largest host count a movement record asks for
MaxHosts == 2
\* member-function calls in one run
MaxCalls == 3
\* largest latency period of a run that only exposes and infects
MaxLatency == 2
\* most rows of the caller's movement list
MaxMoves == 2
\* last step of a run that only moves hosts
MaxStep == 1
\* mortality cohorts, and years, of a run that only applies mortality
MaxCohorts == 2
\* most hosts of a cell in a mortality cohort, or infected, at the start of such a run
MaxCohort == 3

(* Program parameters *)

\* Simulation::rows_ and Simulation::cols_
Rows == 1
Cols == 2
SI == "SusceptibleInfected"
SEI == "SusceptibleExposedInfected"
ModelType == {SI, SEI}

\* std::invalid_argument thrown instead of a value returned
InvalidArgument == "std::invalid_argument"

\* model_type_from_string(const std::string& text): the comparisons are exact
model_type_from_string(text) ==
    IF \/ text = "SI"
       \/ text = "SusceptibleInfected"
       \/ text = "susceptible-infected"
       \/ text = "susceptible_infected"
    THEN SI
    ELSE IF \/ text = "SEI"
            \/ text = "SusceptibleExposedInfected"
            \/ text = "susceptible-exposed-infected"
            \/ text = "susceptible_exposed_infected"
         THEN SEI
         ELSE InvalidArgument

\* a C string: the null pointer, or a pointer to the characters chars
NullCString == [null |-> TRUE, chars |-> ""]
CString(chars) == [null |-> FALSE, chars |-> chars]

\* an overload that takes the null pointer for the first model type
ModelTypeOfCStringDefaulting(text) ==
    IF text.null THEN SI ELSE model_type_from_string(text.chars)

\* model_type_from_string(const char* text): the null pointer is passed on as
\* the empty std::string
model_type_from_c_string(text) ==
    model_type_from_string(IF text.null THEN "" ELSE text.chars)

----------------------------------------------------------------------------
(* Raster: a grid is a function from cells (row, col) to integers *)

Cells == (0 .. Rows - 1) \X (0 .. Cols - 1)

\* the cells in the order of the loops  for i < rows_  for j < cols_
CellAt(k) == <<(k - 1) \div Cols, (k - 1) % Cols>>
NumCells == Rows * Cols

\* Raster::fill(0) seen as a value
ZeroRaster == [c \in Cells |-> 0]

\* Raster::operator+=(const Raster&): cell-wise a += b
RasterPlus(a, b) == [c \in Cells |-> a[c] + b[c]]

\* Raster::operator=(const Raster&): the left side becomes a copy of the data
RasterAssign(this, other) == [c \in Cells |-> other[c]]

\* rotate_left: the second element goes to the front, the first to the back
rotate_left(container) ==
    IF Len(container) = 0 THEN container
    ELSE Append(Tail(container), Head(container))

Min(a, b) == IF a < b THEN a ELSE b

\* the sum of a grid's cells
RECURSIVE GridSum(_, _)
GridSum(g, k) == IF k = 0 THEN 0 ELSE g[CellAt(k)] + GridSum(g, k - 1)
Total(g) == GridSum(g, NumCells)

\* the hosts of cell c in the first k grids of a sequence of grids
RECURSIVE CohortSum(_, _, _)
CohortSum(e, c, k) == IF k = 0 THEN 0 ELSE e[k][c] + CohortSum(e, c, k - 1)

----------------------------------------------------------------------------
(* Simulation::remove *)

\* temperatures handed to remove (below and at the lethal temperature), and the
\* lethal temperature they are compared to
Temperatures == {0, 1}
LethalTemperatures == {1}

\* susceptible(i, j) += infected(i, j)  in the cold cells
RemoveSusceptible(inf, sus, temperature, lethal_temperature) ==
    [c \in Cells |->
        IF temperature[c] < lethal_temperature THEN sus[c] + inf[c] ELSE sus[c]]

\* a remove that also clears the cells at the lethal temperature
RemoveInfectedAtThreshold(inf, temperature, lethal_temperature) ==
    [c \in Cells |-> IF temperature[c] <= lethal_temperature THEN 0 ELSE inf[c]]

\* infected(i, j) = 0  in the cold cells
RemoveInfected(inf, temperature, lethal_temperature) ==
    [c \in Cells |-> IF temperature[c] < lethal_temperature THEN 0 ELSE inf[c]]

Remove ==
    \E temperature \in [Cells -> Temperatures], lethal_temperature \in LethalTemperatures :
        /\ susceptible' = RemoveSusceptible(infected, susceptible, temperature, lethal_temperature)
        /\ infected' = RemoveInfected(infected, temperature, lethal_temperature)
        /\ call' = [op |-> "remove", temperature |-> temperature,
                    lethal_temperature |-> lethal_temperature,
                    removed |-> Total(infected) - Total(infected')]
        /\ UNCHANGED <<model_type, latency_period, exposed, total_plants, mortality_tracker_vector,
                       mortality, dispersers, outside_dispersers>>

----------------------------------------------------------------------------
(* Simulation::generate *)

\* reproductive rates and weather coefficients, in halves (0, 1/2, 1)
RateNums == 0 .. 2
WeatherNums == 0 .. 2

\* lambda > 0 for the cell: reproductive_rate, times weather_coefficient(i, j)
\* when weather is used
LambdaPositive(rate, weather, weather_coefficient, c) ==
    IF weather THEN rate * weather_coefficient[c] > 0 ELSE rate > 0

\* the sum of the first n draws of a cell
RECURSIVE SumDraws(_, _)
SumDraws(draws, n) == IF n <= 0 THEN 0 ELSE draws[n] + SumDraws(draws, n - 1)

\* the values dispersers_from_cell can end with: the sum of infected(i, j) draws,
\* each draw a sample of poisson_distribution(lambda)
DispersersFromCell(n, positive) ==
    IF n <= 0 \/ ~positive THEN {0}
    ELSE {SumDraws(d, n) : d \in [1 .. n -> 0 .. MaxPoisson]}

\* the weather arguments of a call: weather off, or on with a coefficient grid
WeatherArgs ==
    {[weather |-> FALSE, coefficient |-> [c \in Cells |-> 2]]}
    \cup {[weather |-> TRUE, coefficient |-> g] : g \in [Cells -> WeatherNums]}

\* the grids a call can leave in dispersers
GenerateResults(inf, rate, weather, weather_coefficient) ==
    {d \in [Cells -> 0 .. MaxDispersers] :
        \A c \in Cells :
            d[c] \in DispersersFromCell(inf[c],
                        LambdaPositive(rate, weather, weather_coefficient, c))}

Generate ==
    \E d \in UNION {GenerateResults(infected, rate, w.weather, w.coefficient) :
                        rate \in RateNums, w \in WeatherArgs} :
        /\ Total(d) <= MaxDispersers
        /\ dispersers' = d
        /\ call' = [op |-> "generate"]
        /\ UNCHANGED <<model_type, latency_period, exposed, infected, susceptible, total_plants,
                       mortality_tracker_vector, mortality, outside_dispersers>>

\* what one call of distribution(generator_) can return: a sample of
\* poisson_distribution(lambda), which is 0 when lambda is 0
PoissonSamples(positive) == IF positive THEN 0 .. MaxPoisson ELSE {0}

\* the samples the loop  for k < infected(i, j)  can take at a cell, in order
CellDraws(n, positive) == [1 .. (IF n > 0 THEN n ELSE 0) -> PoissonSamples(positive)]

\* the sample sequences a call can take, cell by cell
GenerateDraws(inf, rate, weather, weather_coefficient) ==
    {d \in [Cells -> UNION {CellDraws(n, TRUE) : n \in 0 .. MaxPlants}] :
        \A c \in Cells :
            d[c] \in CellDraws(inf[c], LambdaPositive(rate, weather, weather_coefficient, c))}

\* a generate that takes one sample per infected cell
GenerateWithPooledDraw(inf, draws) ==
    [c \in Cells |-> IF inf[c] > 0 THEN draws[c][1] ELSE 0]

\* the grid a call leaves in dispersers when its samples are draws:
\* dispersers(i, j) = dispersers_from_cell where infected(i, j) > 0, else 0
GenerateWith(inf, draws) ==
    [c \in Cells |-> IF inf[c] > 0 THEN SumDraws(draws[c], inf[c]) ELSE 0]

\* a call of generate that records its arguments and the samples it took
GenerateCall ==
    \E rate \in RateNums, w \in WeatherArgs :
        \E draws \in GenerateDraws(infected, rate, w.weather, w.coefficient) :
            /\ dispersers' = GenerateWith(infected, draws)
            /\ call' = [op |-> "generate", rate |-> rate, weather |-> w.weather,
                        weather_coefficient |-> w.coefficient, draws |-> draws]
            /\ UNCHANGED <<model_type, latency_period, exposed, infected, susceptible,
                           total_plants, mortality_tracker_vector, mortality,
                           outside_dispersers>>

----------------------------------------------------------------------------
(* Simulation::disperse *)

\* what dispersal_kernel(generator_, i, j) can return: every cell of the grid,
\* and a position beyond each of its four edges
KernelTargets ==
    Cells \cup {<<-1, 0>>, <<Rows, 0>>, <<0, -1>>, <<0, Cols>>}

\* establishment_tester, a sample of uniform_real_distribution(0.0, 1.0),
\* in TesterDen-ths: 0, 1/TesterDen, ... (TesterDen - 1)/TesterDen
TesterDen == 2
TesterNums == 0 .. TesterDen - 1

\* one disperser's draws: the kernel's result and the establishment tester
Draws ==
    [target : Cells, tester : TesterNums]
    \cup [target : KernelTargets \ Cells, tester : {0}]

\* row < 0 || row >= rows_ || col < 0 || col >= cols_
OutsideGrid(row, col) == row < 0 \/ row >= Rows \/ col < 0 \/ col >= Cols

\* establishment_tester < probability_of_establishment, where the probability is
\* (double)susceptible(row, col) / total_plants(row, col), times
\* weather_coefficient(i, j) of the source cell when weather is used.
\* It is only computed for susceptible(row, col) > 0.  The division is a
\* floating-point one: with total_plants = 0 the quotient is +infinity, which
\* stays +infinity times a positive coefficient and is NaN times 0 (every
\* comparison with NaN is false).
Establishes(tester, sus, total, weather, coefficient) ==
    LET w == IF weather THEN coefficient ELSE 2
    IN  IF total = 0 THEN w > 0
        ELSE IF total > 0 THEN tester * total * 2 < sus * w * TesterDen
        ELSE tester * total * 2 > sus * w * TesterDen

\* a loop body that establishes without taking the host out of susceptible
DisperseOneKeepsSusceptible(st, src, draw, total, weather, weather_coefficient, mtype) ==
    LET row == draw.target[1]
        col == draw.target[2]
        cell == <<row, col>>
    IN  IF OutsideGrid(row, col)
        THEN [st EXCEPT !.out = Append(@, <<row, col>>)]
        ELSE IF st.s[cell] > 0
                /\ Establishes(draw.tester, st.s[cell], total[cell],
                               weather, weather_coefficient[src])
        THEN [st EXCEPT !.t[cell] = @ + 1,
                        !.mt[cell] = IF mtype = SI THEN @ + 1 ELSE @]
        ELSE st

\* a loop body that records an outside disperser as (col, row)
DisperseOneSwapsOutside(st, src, draw, total, weather, weather_coefficient, mtype) ==
    LET row == draw.target[1]
        col == draw.target[2]
        cell == <<row, col>>
    IN  IF OutsideGrid(row, col)
        THEN [st EXCEPT !.out = Append(@, <<col, row>>)]
        ELSE IF st.s[cell] > 0
                /\ Establishes(draw.tester, st.s[cell], total[cell],
                               weather, weather_coefficient[src])
        THEN [st EXCEPT !.t[cell] = @ + 1,
                        !.s[cell] = @ - 1,
                        !.mt[cell] = IF mtype = SI THEN @ + 1 ELSE @]
        ELSE st

\* a loop body that counts every established host in the mortality cohort,
\* whatever the model type
DisperseOneTracksAlways(st, src, draw, total, weather, weather_coefficient, mtype) ==
    LET row == draw.target[1]
        col == draw.target[2]
        cell == <<row, col>>
    IN  IF OutsideGrid(row, col)
        THEN [st EXCEPT !.out = Append(@, <<row, col>>)]
        ELSE IF st.s[cell] > 0
                /\ Establishes(draw.tester, st.s[cell], total[cell],
                               weather, weather_coefficient[src])
        THEN [st EXCEPT !.t[cell] = @ + 1,
                        !.s[cell] = @ - 1,
                        !.mt[cell] = @ + 1]
        ELSE st

\* the body of the loop over k for one disperser of source cell src;
\* st holds the grids the call writes: s (susceptible), t (exposed_or_infected),
\* mt (mortality_tracker) and out (outside_dispersers)
DisperseOne(st, src, draw, total, weather, weather_coefficient, mtype) ==
    LET row == draw.target[1]
        col == draw.target[2]
        cell == <<row, col>>
    IN  IF OutsideGrid(row, col)
        THEN [st EXCEPT !.out = Append(@, <<row, col>>)]
        ELSE IF st.s[cell] > 0
                /\ Establishes(draw.tester, st.s[cell], total[cell],
                               weather, weather_coefficient[src])
        THEN [st EXCEPT !.t[cell] = @ + 1,
                        !.s[cell] = @ - 1,
                        !.mt[cell] = IF mtype = SI THEN @ + 1 ELSE @]
        ELSE st

\* the source cell of each disperser, in the order of the loops over i, j and k
RECURSIVE Sources(_, _)
Sources(disp, k) ==
    IF k = 0 THEN <<>>
    ELSE Sources(disp, k - 1)
         \o [n \in 1 .. (IF disp[CellAt(k)] > 0 THEN disp[CellAt(k)] ELSE 0) |-> CellAt(k)]

RECURSIVE DisperseLoop(_, _, _, _, _, _, _, _)
DisperseLoop(st, srcs, draws, n, total, weather, weather_coefficient, mtype) ==
    IF n = 0 THEN st
    ELSE DisperseOne(
            DisperseLoop(st, srcs, draws, n - 1, total, weather, weather_coefficient, mtype),
            srcs[n], draws[n], total, weather, weather_coefficient, mtype)

\* the whole call: the grids and the outside list after every disperser is processed
Disperse(disp, sus, target, tracker, total, outside, weather, weather_coefficient, draws, mtype) ==
    DisperseLoop([s |-> sus, t |-> target, mt |-> tracker, out |-> outside],
                 Sources(disp, NumCells), draws, Len(Sources(disp, NumCells)),
                 total, weather, weather_coefficient, mtype)

\* the draws a call can take: one per disperser
DrawSeqs(disp) == [1 .. Len(Sources(disp, NumCells)) -> Draws]

\* the kernel results of a call that are no cell of the grid, in the order drawn
RECURSIVE OutsideDraws(_, _)
OutsideDraws(draws, n) ==
    IF n = 0 THEN <<>>
    ELSE OutsideDraws(draws, n - 1)
         \o (IF draws[n].target \in Cells THEN <<>> ELSE <<draws[n].target>>)

\* values the grids of a call may hold afterwards for the model to stay finite
WithinBounds(st) ==
    /\ Len(st.out) <= MaxOutside
    /\ \A c \in Cells : st.mt[c] <= MaxTrack

\* the caller hands disperse the compartment that receives the established hosts:
\* infected in the SI model, the newest exposed cohort, exposed.back(), in the SEI model
DisperseCall ==
    /\ Len(exposed) > 0
    /\ \E y \in 1 .. Len(mortality_tracker_vector) :
        LET target == IF model_type = SI THEN infected ELSE exposed[Len(exposed)]
        IN  \E r \in {[st |-> Disperse(dispersers, susceptible, target,
                                       mortality_tracker_vector[y], total_plants,
                                       outside_dispersers, w.weather, w.coefficient,
                                       draws, model_type),
                        outside |-> OutsideDraws(draws, Len(draws))] :
                            w \in WeatherArgs, draws \in DrawSeqs(dispersers)} :
            /\ WithinBounds(r.st)
            /\ susceptible' = r.st.s
            /\ infected' = IF model_type = SI THEN r.st.t ELSE infected
            /\ exposed' = IF model_type = SI THEN exposed
                          ELSE [exposed EXCEPT ![Len(exposed)] = r.st.t]
            /\ mortality_tracker_vector' = [mortality_tracker_vector EXCEPT ![y] = r.st.mt]
            /\ outside_dispersers' = r.st.out
            /\ call' = [op |-> "disperse", year |-> y, outside |-> r.outside,
                        established |-> Total(susceptible) - Total(r.st.s)]
    /\ UNCHANGED <<model_type, latency_period, total_plants, mortality, dispersers>>

----------------------------------------------------------------------------
(* Simulation::infect *)

\* an infect that zeroes the oldest cohort and leaves the queue as it is
InfectWithoutRotate(st, mtype) ==
    IF mtype = SEI /\ Len(st.e) >= latency_period + 1
    THEN [e |-> [st.e EXCEPT ![1] = ZeroRaster],
          i |-> RasterPlus(st.i, st.e[1]),
          mt |-> RasterPlus(st.mt, st.e[1])]
    ELSE st

\* st holds the arguments the call writes: e (exposed), i (infected) and
\* mt (mortality_tracker)
Infect(st, mtype) ==
    IF mtype = SEI /\ Len(st.e) >= latency_period + 1
    THEN [e |-> rotate_left([st.e EXCEPT ![1] = ZeroRaster]),
          i |-> RasterPlus(st.i, st.e[1]),
          mt |-> RasterPlus(st.mt, st.e[1])]
    ELSE st

InfectCall ==
    \E y \in 1 .. Len(mortality_tracker_vector) :
        LET st == Infect([e |-> exposed, i |-> infected, mt |-> mortality_tracker_vector[y]],
                         model_type)
        IN  /\ \A c \in Cells : st.mt[c] <= MaxTrack
            /\ exposed' = st.e
            /\ infected' = st.i
            /\ mortality_tracker_vector' = [mortality_tracker_vector EXCEPT ![y] = st.mt]
            /\ call' = [op |-> "infect", year |-> y,
                        advanced |-> Total(st.i) - Total(infected)]
            /\ UNCHANGED <<model_type, latency_period, susceptible, total_plants, mortality, dispersers,
                           outside_dispersers>>

----------------------------------------------------------------------------
(* Simulation::disperse_and_infect *)

\* auto& infected_or_exposed = infected;  binds a reference to infected, so that
\* infected_or_exposed = exposed.back();  is Raster::operator= on infected itself:
\* infected becomes a copy of the newest cohort, and disperse is given infected
InfectedOrExposed(inf, exp, mtype) ==
    IF mtype = SEI THEN RasterAssign(inf, exp[Len(exp)]) ELSE inf

\* the whole call; the result holds s, i, e, mt and out
DisperseAndInfect(disp, sus, exp, inf, tracker, total, outside, weather, weather_coefficient, draws, mtype) ==
    LET d == Disperse(disp, sus, InfectedOrExposed(inf, exp, mtype), tracker, total,
                      outside, weather, weather_coefficient, draws, mtype)
        f == IF mtype = SEI
             THEN Infect([e |-> exp, i |-> d.t, mt |-> d.mt], mtype)
             ELSE [e |-> exp, i |-> d.t, mt |-> d.mt]
    IN  [s |-> d.s, i |-> f.i, e |-> f.e, mt |-> f.mt, out |-> d.out]

DisperseAndInfectCall ==
    /\ Len(exposed) > 0
    /\ \E y \in 1 .. Len(mortality_tracker_vector) :
        \E r \in {[st |-> DisperseAndInfect(dispersers, susceptible, exposed, infected,
                                            mortality_tracker_vector[y], total_plants,
                                            outside_dispersers, w.weather, w.coefficient,
                                            draws, model_type),
                    outside |-> OutsideDraws(draws, Len(draws))] :
                        w \in WeatherArgs, draws \in DrawSeqs(dispersers)} :
            /\ WithinBounds(r.st)
            /\ susceptible' = r.st.s
            /\ infected' = r.st.i
            /\ exposed' = r.st.e
            /\ mortality_tracker_vector' = [mortality_tracker_vector EXCEPT ![y] = r.st.mt]
            /\ outside_dispersers' = r.st.out
            /\ call' = [op |-> "disperse_and_infect", year |-> y, outside |-> r.outside,
                        established |-> Total(susceptible) - Total(r.st.s)]
    /\ UNCHANGED <<model_type, latency_period, total_plants, mortality, dispersers>>

----------------------------------------------------------------------------
(* Simulation::mortality *)

\* mortality_in_year_index = mortality_rate * mortality_tracker_vector[year_index](i, j):
\* the product of a double and an int stored in an int, so truncated toward zero.
\* The rate is rate / 2 (0, 1/2 or 1), for which the double product is exact.
MortalityInYearIndex(rate, tracked) == (rate * tracked) \div 2

\* the loop over year_index for one cell; st holds i (infected(i, j)),
\* m (mortality(i, j)) and tr (the cell's value in each cohort); the loop runs
\* for year_index = 0 .. max_year_index, which are the cohorts 1 .. n here
RECURSIVE MortalityCell(_, _, _)
MortalityCell(st, rate, n) ==
    IF n = 0 THEN st
    ELSE LET p == MortalityCell(st, rate, n - 1)
             d == MortalityInYearIndex(rate, p.tr[n])
         IN  IF p.tr[n] > 0
             THEN [i |-> IF p.i > 0 THEN p.i - d ELSE p.i,
                   m |-> p.m + d,
                   tr |-> [p.tr EXCEPT ![n] = @ - d]]
             ELSE p

\* a mortality that ignores first_mortality_year and processes every cohort
MortalityFromTheStart(inf, rate, current_year, first_mortality_year, mort, tracker_vector) ==
    LET cell(c) == MortalityCell(
                       [i |-> inf[c], m |-> mort[c],
                        tr |-> [y \in 1 .. Len(tracker_vector) |-> tracker_vector[y][c]]],
                       rate, Len(tracker_vector))
    IN  [i |-> [c \in Cells |-> cell(c).i],
         m |-> [c \in Cells |-> cell(c).m],
         v |-> [y \in 1 .. Len(tracker_vector) |-> [c \in Cells |-> cell(c).tr[y]]]]

\* the whole call: nothing before first_mortality_year, else every cell's loop;
\* the result holds i (infected), m (mortality) and v (mortality_tracker_vector)
Mortality(inf, rate, current_year, first_mortality_year, mort, tracker_vector) ==
    IF current_year >= first_mortality_year
    THEN LET n == current_year - first_mortality_year + 1
             cell(c) == MortalityCell(
                            [i |-> inf[c], m |-> mort[c],
                             tr |-> [y \in 1 .. Len(tracker_vector) |-> tracker_vector[y][c]]],
                            rate, n)
         IN  [i |-> [c \in Cells |-> cell(c).i],
              m |-> [c \in Cells |-> cell(c).m],
              v |-> [y \in 1 .. Len(tracker_vector) |->
                        [c \in Cells |-> cell(c).tr[y]]]]
    ELSE [i |-> inf, m |-> mort, v |-> tracker_vector]

\* the caller keeps max_year_index inside mortality_tracker_vector; year 0 is
\* first_mortality_year
MortalityCall ==
    \E rate \in RateNums, current_year \in -1 .. Len(mortality_tracker_vector) - 1 :
        LET st == Mortality(infected, rate, current_year, 0, mortality,
                            mortality_tracker_vector)
        IN  /\ infected' = st.i
            /\ mortality' = st.m
            /\ mortality_tracker_vector' = st.v
            /\ call' = [op |-> "mortality"]
            /\ UNCHANGED <<model_type, latency_period, exposed, susceptible, total_plants, dispersers,
                           outside_dispersers>>

\* a call that records its arguments; the caller keeps max_year_index inside
\* mortality_tracker_vector
MortalityOfYear ==
    \E rate \in RateNums, first_mortality_year \in 0 .. 1 :
        \E current_year \in 0 .. first_mortality_year + Len(mortality_tracker_vector) - 1 :
            LET st == Mortality(infected, rate, current_year, first_mortality_year,
                                mortality, mortality_tracker_vector)
            IN  /\ infected' = st.i
                /\ mortality' = st.m
                /\ mortality_tracker_vector' = st.v
                /\ call' = [op |-> "mortality", mortality_rate |-> rate,
                            current_year |-> current_year,
                            first_mortality_year |-> first_mortality_year]
                /\ UNCHANGED <<model_type, latency_period, exposed, susceptible,
                               total_plants, dispersers, outside_dispersers>>

----------------------------------------------------------------------------
(* Simulation::movement *)

\* a row of movements: row_from/col_from, row_to/col_to and num_hosts
MoveRecords == [from : Cells, to : Cells, hosts : 0 .. MaxHosts]

\* int infected_mean = total_hosts_moved * inf_ratio, with
\* inf_ratio = double(infected) / double(total_plants): truncated toward zero.
\* For the host counts of this model the double arithmetic gives the integer quotient.
InfectedMean(total_hosts_moved, inf, total) == (total_hosts_moved * inf) \div total

\* a loop body that moves the requested number of hosts, whatever the source holds
MoveOneUnclipped(st, moved, draw) ==
    LET from == moved.from
        to == moved.to
        total_hosts_moved == moved.hosts
        both == st.i[from] > 0 /\ st.s[from] > 0
        infected_moved ==
            IF both THEN Min(Min(draw, st.i[from]), total_hosts_moved)
            ELSE IF st.i[from] > 0 /\ st.s[from] = 0 THEN total_hosts_moved
            ELSE 0
        susceptible_moved ==
            IF both THEN Min(total_hosts_moved - infected_moved, st.s[from])
            ELSE IF st.i[from] = 0 /\ st.s[from] > 0 THEN total_hosts_moved
            ELSE 0
        skip == ~both /\ ~(st.i[from] > 0 /\ st.s[from] = 0)
                      /\ ~(st.i[from] = 0 /\ st.s[from] > 0)
        i1 == [st.i EXCEPT ![from] = @ - infected_moved]
        s1 == [st.s EXCEPT ![from] = @ - susceptible_moved]
        t1 == [st.tp EXCEPT ![from] = @ - total_hosts_moved]
    IN  IF skip THEN st
        ELSE [st EXCEPT !.i = [i1 EXCEPT ![to] = @ + infected_moved],
                        !.s = [s1 EXCEPT ![to] = @ + susceptible_moved],
                        !.tp = [t1 EXCEPT ![to] = @ + total_hosts_moved]]

\* a loop body that forgets the infected hosts it took from the source
MoveOneLosesInfected(st, moved, draw) ==
    LET from == moved.from
        to == moved.to
        hosts == moved.hosts
        total_hosts_moved == IF hosts > st.tp[from] THEN st.tp[from] ELSE hosts
        both == st.i[from] > 0 /\ st.s[from] > 0
        infected_moved ==
            IF both THEN Min(Min(draw, st.i[from]), total_hosts_moved)
            ELSE IF st.i[from] > 0 /\ st.s[from] = 0 THEN total_hosts_moved
            ELSE 0
        susceptible_moved ==
            IF both THEN Min(total_hosts_moved - infected_moved, st.s[from])
            ELSE IF st.i[from] = 0 /\ st.s[from] > 0 THEN total_hosts_moved
            ELSE 0
        skip == ~both /\ ~(st.i[from] > 0 /\ st.s[from] = 0)
                      /\ ~(st.i[from] = 0 /\ st.s[from] > 0)
        i1 == [st.i EXCEPT ![from] = @ - infected_moved]
        s1 == [st.s EXCEPT ![from] = @ - susceptible_moved]
        t1 == [st.tp EXCEPT ![from] = @ - total_hosts_moved]
    IN  IF skip THEN st
        ELSE [st EXCEPT !.i = i1,
                        !.s = [s1 EXCEPT ![to] = @ + susceptible_moved],
                        !.tp = [t1 EXCEPT ![to] = @ + total_hosts_moved]]

\* a loop body that does not clip the susceptible share to susceptible(source)
MoveOneUnclippedSusceptible(st, moved, draw) ==
    LET from == moved.from
        to == moved.to
        hosts == moved.hosts
        total_hosts_moved == IF hosts > st.tp[from] THEN st.tp[from] ELSE hosts
        both == st.i[from] > 0 /\ st.s[from] > 0
        infected_moved ==
            IF both THEN Min(Min(draw, st.i[from]), total_hosts_moved)
            ELSE IF st.i[from] > 0 /\ st.s[from] = 0 THEN total_hosts_moved
            ELSE 0
        susceptible_moved ==
            IF both THEN total_hosts_moved - infected_moved
            ELSE IF st.i[from] = 0 /\ st.s[from] > 0 THEN total_hosts_moved
            ELSE 0
        skip == ~both /\ ~(st.i[from] > 0 /\ st.s[from] = 0)
                      /\ ~(st.i[from] = 0 /\ st.s[from] > 0)
        i1 == [st.i EXCEPT ![from] = @ - infected_moved]
        s1 == [st.s EXCEPT ![from] = @ - susceptible_moved]
        t1 == [st.tp EXCEPT ![from] = @ - total_hosts_moved]
    IN  IF skip THEN st
        ELSE [st EXCEPT !.i = [i1 EXCEPT ![to] = @ + infected_moved],
                        !.s = [s1 EXCEPT ![to] = @ + susceptible_moved],
                        !.tp = [t1 EXCEPT ![to] = @ + total_hosts_moved]]

\* a loop body that moves hosts only out of a cell holding both kinds, and
\* still takes the movable count out of total_plants otherwise
MoveOneOfBothOnly(st, moved, draw) ==
    LET from == moved.from
        to == moved.to
        hosts == moved.hosts
        total_hosts_moved == IF hosts > st.tp[from] THEN st.tp[from] ELSE hosts
        both == st.i[from] > 0 /\ st.s[from] > 0
        infected_moved ==
            IF both THEN Min(Min(draw, st.i[from]), total_hosts_moved) ELSE 0
        susceptible_moved ==
            IF both THEN Min(total_hosts_moved - infected_moved, st.s[from]) ELSE 0
        i1 == [st.i EXCEPT ![from] = @ - infected_moved]
        s1 == [st.s EXCEPT ![from] = @ - susceptible_moved]
        t1 == [st.tp EXCEPT ![from] = @ - total_hosts_moved]
    IN  [st EXCEPT !.i = [i1 EXCEPT ![to] = @ + infected_moved],
                   !.s = [s1 EXCEPT ![to] = @ + susceptible_moved],
                   !.tp = [t1 EXCEPT ![to] = @ + total_hosts_moved]]

\* the body of the loop for one row; st holds i (infected), s (susceptible) and
\* tp (total_plants); draw is what distribution(generator_) returns if it is called.
\* With total_plants = 0 at the source, inf_ratio is infinite and
\* total_hosts_moved * inf_ratio is NaN, whose conversion to int is undefined:
\* infected_mean may then be any value, so the draw may or may not be taken
\* (a draw of 0 stands for both).
MoveOne(st, moved, draw) ==
    LET from == moved.from
        to == moved.to
        hosts == moved.hosts
        total_hosts_moved == IF hosts > st.tp[from] THEN st.tp[from] ELSE hosts
        both == st.i[from] > 0 /\ st.s[from] > 0
        drawn == IF st.tp[from] = 0 THEN draw
                 ELSE IF InfectedMean(total_hosts_moved, st.i[from], st.tp[from]) > 0
                      THEN draw ELSE 0
        infected_moved ==
            IF both THEN Min(Min(drawn, st.i[from]), total_hosts_moved)
            ELSE IF st.i[from] > 0 /\ st.s[from] = 0 THEN total_hosts_moved
            ELSE 0
        susceptible_moved ==
            IF both THEN Min(total_hosts_moved - infected_moved, st.s[from])
            ELSE IF st.i[from] = 0 /\ st.s[from] > 0 THEN total_hosts_moved
            ELSE 0
        skip == ~both /\ ~(st.i[from] > 0 /\ st.s[from] = 0)
                      /\ ~(st.i[from] = 0 /\ st.s[from] > 0)
        i1 == [st.i EXCEPT ![from] = @ - infected_moved]
        s1 == [st.s EXCEPT ![from] = @ - susceptible_moved]
        t1 == [st.tp EXCEPT ![from] = @ - total_hosts_moved]
    IN  IF skip THEN st
        ELSE [st EXCEPT !.i = [i1 EXCEPT ![to] = @ + infected_moved],
                        !.s = [s1 EXCEPT ![to] = @ + susceptible_moved],
                        !.tp = [t1 EXCEPT ![to] = @ + total_hosts_moved]]

\* a loop that, at a row that is not due, returns the index of the row before it
RECURSIVE MovementLoopReturnsRowBefore(_, _, _, _, _, _)
MovementLoopReturnsRowBefore(st, i, step, movements, movement_schedule, draws) ==
    IF i >= Len(movements) THEN [st EXCEPT !.ret = Len(movements)]
    ELSE IF movement_schedule[i + 1] # step THEN [st EXCEPT !.ret = i - 1]
    ELSE MovementLoopReturnsRowBefore(MoveOne(st, movements[i + 1], draws[i + 1]), i + 1,
                                      step, movements, movement_schedule, draws)

\* the loop from index i (counted from 0) on; ret is the value returned
RECURSIVE MovementLoop(_, _, _, _, _, _)
MovementLoop(st, i, step, movements, movement_schedule, draws) ==
    IF i >= Len(movements) THEN [st EXCEPT !.ret = Len(movements)]
    ELSE IF movement_schedule[i + 1] # step THEN [st EXCEPT !.ret = i]
    ELSE MovementLoop(MoveOne(st, movements[i + 1], draws[i + 1]), i + 1, step,
                      movements, movement_schedule, draws)

\* the whole call; the result holds i, s, tp and ret
Movement(inf, sus, total, step, last_index, movements, movement_schedule, draws) ==
    MovementLoop([i |-> inf, s |-> sus, tp |-> total, ret |-> 0], last_index, step,
                 movements, movement_schedule, draws)

\* a call with one row that is due at the step of the call
MovementCall ==
    \E moved \in MoveRecords, draw \in 0 .. MaxPoisson :
        LET st == Movement(infected, susceptible, total_plants, 0, 0,
                           <<moved>>, <<0>>, <<draw>>)
        IN  /\ infected' = st.i
            /\ susceptible' = st.s
            /\ total_plants' = st.tp
            /\ call' = [op |-> "movement", ret |-> st.ret]
            /\ UNCHANGED <<model_type, latency_period, exposed, mortality_tracker_vector, mortality,
                           dispersers, outside_dispersers>>

\* the schedules the caller keeps: sorted by step, ascending
SortedSchedules(n) ==
    {sch \in [1 .. n -> 0 .. MaxStep] : \A k \in 1 .. n - 1 : sch[k] <= sch[k + 1]}

\* the caller's movement lists with their schedules
MovementLists ==
    UNION {[movements : [1 .. n -> MoveRecords], movement_schedule : SortedSchedules(n)] :
              n \in 0 .. MaxMoves}

\* the results a call can have, one for each way the samples can fall
MovementResults(inf, sus, total, step, last_index, movements, movement_schedule) ==
    {Movement(inf, sus, total, step, last_index, movements, movement_schedule, draws) :
        draws \in [1 .. Len(movements) -> 0 .. MaxPoisson]}

\* a call in the caller's loop over the steps: the list is the caller's, the
\* cursor is the value the previous call returned (0 at first), and the step
\* is later than the step of the previous call
MovementScan ==
    \E step \in (IF call.op = "movement" THEN call.step + 1 ELSE 0) .. MaxStep :
        \E st \in MovementResults(infected, susceptible, total_plants, step, call.ret,
                                  call.movements, call.movement_schedule) :
            /\ infected' = st.i
            /\ susceptible' = st.s
            /\ total_plants' = st.tp
            /\ call' = [op |-> "movement", movements |-> call.movements,
                        movement_schedule |-> call.movement_schedule,
                        step |-> step, last_index |-> call.ret, ret |-> st.ret]
            /\ UNCHANGED <<model_type, latency_period, exposed, mortality_tracker_vector,
                           mortality, dispersers, outside_dispersers>>

----------------------------------------------------------------------------
(* The caller's grids at the start, and the calls it can make *)

\* The grids of a run in progress: every cell holds MaxPlants hosts, one of them
\* infected and the others susceptible, and generate has produced one disperser per
\* cell; the exposed queue, the mortality cohorts and the cumulative mortality
\* are zero.  The latency period is 1; the SEI model is run with a full queue
\* (latency_period_ + 1 grids) and with a queue one grid short of it.
Init ==
    /\ model_type \in ModelType
    /\ latency_period = 1
    /\ exposed \in {[k \in 1 .. n |-> ZeroRaster] : n \in {latency_period, latency_period + 1}}
    /\ model_type = SI => Len(exposed) = latency_period + 1
    /\ total_plants = [c \in Cells |-> MaxPlants]
    /\ infected = [c \in Cells |-> 1]
    /\ susceptible = [c \in Cells |-> total_plants[c] - infected[c]]
    /\ mortality_tracker_vector = [y \in 1 .. MaxYears |-> ZeroRaster]
    /\ mortality = ZeroRaster
    /\ dispersers = [c \in Cells |-> 1]
    /\ outside_dispersers = <<>>
    /\ call = [op |-> "init"]
    /\ calls = 0

\* one more call of a member function, of at most n
Called(n) ==
    /\ calls < n
    /\ calls' = calls + 1

Next ==
    \/ Called(MaxCalls) /\ Remove
    \/ Called(MaxCalls) /\ Generate
    \/ Called(MaxCalls) /\ DisperseCall
    \/ Called(MaxCalls) /\ InfectCall
    \/ Called(MaxCalls) /\ DisperseAndInfectCall
    \/ Called(MaxCalls) /\ MortalityCall
    \/ Called(MaxCalls) /\ MovementCall

Spec == Init /\ [][Next]_vars

----------------------------------------------------------------------------
(* A run of the SEI model that only exposes and infects.  Every step exposes
   dispersers[c] hosts of each cell c, each disperser establishing in the cell
   it started from, and then advances the latency.  A run makes its steps
   either as one call of disperse_and_infect or as a call of disperse on the
   newest cohort, exposed.back(), followed by a call of infect.  dispersers
   holds the constant input of the steps; susceptible holds enough hosts for
   latency_period + 2 steps. *)

InitLatency ==
    /\ model_type = SEI
    /\ latency_period \in 0 .. MaxLatency
    /\ exposed = [k \in 1 .. latency_period + 1 |-> ZeroRaster]
    /\ dispersers \in [Cells -> 0 .. MaxDispersers]
    /\ Total(dispersers) <= MaxDispersers
    /\ susceptible = [c \in Cells |-> dispersers[c] * (latency_period + 2)]
    /\ total_plants = susceptible
    /\ infected = ZeroRaster
    /\ mortality_tracker_vector = [y \in 1 .. MaxYears |-> ZeroRaster]
    /\ mortality = ZeroRaster
    /\ outside_dispersers = <<>>
    /\ call = [op |-> "init"]
    /\ calls = 0

\* every disperser of the call establishes in the cell it started from
EstablishedAtSource == \A c \in Cells : susceptible'[c] = susceptible[c] - dispersers[c]

\* a step made by the one call of disperse_and_infect
WholeStep ==
    /\ call.op \in {"init", "disperse_and_infect"}
    /\ DisperseAndInfectCall
    /\ EstablishedAtSource

\* the call of disperse of a step made by two calls
ExposeStep ==
    /\ call.op \in {"init", "infect"}
    /\ DisperseCall
    /\ EstablishedAtSource

\* the call of infect of a step made by two calls
InfectStep ==
    /\ call.op = "disperse"
    /\ InfectCall

NextLatency ==
    \/ Called(latency_period + 2) /\ WholeStep
    \/ Called(2 * (latency_period + 2)) /\ ExposeStep
    \/ Called(2 * (latency_period + 2)) /\ InfectStep

SpecLatency == InitLatency /\ [][NextLatency]_vars

----------------------------------------------------------------------------
(* One call of generate on the grids of a run in progress: infected holds 0 to
   MaxPlants hosts per cell, or the -1 that movement leaves in a cell it
   emptied of more infected hosts than it had; dispersers holds what an earlier
   call left. *)

InitGenerate ==
    /\ model_type = SEI
    /\ latency_period = 1
    /\ infected \in [Cells -> -1 .. MaxPlants]
    /\ exposed = <<ZeroRaster, [c \in Cells |-> IF infected[c] < 0 THEN 1 ELSE 0]>>
    /\ susceptible = [c \in Cells |-> IF infected[c] < 0 THEN 0 ELSE MaxPlants - infected[c]]
    /\ total_plants = [c \in Cells |-> IF infected[c] < 0 THEN 0 ELSE MaxPlants]
    /\ mortality_tracker_vector = [y \in 1 .. MaxYears |-> ZeroRaster]
    /\ mortality = ZeroRaster
    /\ dispersers \in [Cells -> {0, MaxDispersers}]
    /\ outside_dispersers = <<>>
    /\ call = [op |-> "init"]
    /\ calls = 0

NextGenerate == Called(1) /\ GenerateCall

SpecGenerate == InitGenerate /\ [][NextGenerate]_vars

----------------------------------------------------------------------------
(* A run of the SI model that only moves hosts.  Every cell holds MaxPlants
   hosts, any number of them susceptible or infected and the others dead; the
   caller has a movement list sorted by step and calls movement at some of the
   steps 0 .. MaxStep, in order, handing each call the cursor the call before
   returned. *)

InitMovement ==
    /\ model_type = SI
    /\ latency_period = 1
    /\ exposed = <<ZeroRaster, ZeroRaster>>
    /\ total_plants = [c \in Cells |-> MaxPlants]
    /\ infected \in [Cells -> 0 .. MaxPlants]
    /\ susceptible \in [Cells -> 0 .. MaxPlants]
    /\ \A c \in Cells : susceptible[c] + infected[c] <= total_plants[c]
    /\ mortality = [c \in Cells |-> total_plants[c] - susceptible[c] - infected[c]]
    /\ mortality_tracker_vector = [y \in 1 .. MaxYears |-> ZeroRaster]
    /\ dispersers = ZeroRaster
    /\ outside_dispersers = <<>>
    /\ \E l \in MovementLists :
           call = [op |-> "init", movements |-> l.movements,
                   movement_schedule |-> l.movement_schedule, ret |-> 0]
    /\ calls = 0

NextMovement == Called(MaxStep + 1) /\ MovementScan

SpecMovement == InitMovement /\ [][NextMovement]_vars

----------------------------------------------------------------------------
(* A run of the SI model that only applies mortality.  Every cell holds up to
   MaxCohort infected hosts and up to MaxCohort hosts in each of MaxCohorts
   mortality cohorts; where the cohorts hold more hosts than infected, remove
   has returned the others to susceptible. *)

InitMortality ==
    /\ model_type = SI
    /\ latency_period = 1
    /\ exposed = <<ZeroRaster, ZeroRaster>>
    /\ infected \in [Cells -> 0 .. MaxCohort]
    /\ mortality_tracker_vector \in [1 .. MaxCohorts -> [Cells -> 0 .. MaxCohort]]
    /\ susceptible =
           [c \in Cells |->
               LET tracked == CohortSum(mortality_tracker_vector, c, MaxCohorts)
               IN  IF tracked > infected[c] THEN tracked - infected[c] ELSE 0]
    /\ total_plants = [c \in Cells |-> susceptible[c] + infected[c]]
    /\ mortality = ZeroRaster
    /\ dispersers = ZeroRaster
    /\ outside_dispersers = <<>>
    /\ call = [op |-> "init"]
    /\ calls = 0

NextMortality == Called(MaxCohorts) /\ MortalityOfYear

SpecMortality == InitMortality /\ [][NextMortality]_vars

----------------------------------------------------------------------------
(* A run of the SI model in which mortality is called year after year with one
   positive mortality_rate and no new hosts arrive.  Every year is past
   first_mortality_year and late enough for max_year_index to be the last
   cohort, so each call processes every cohort; the year itself is not kept. *)

InitDecay ==
    /\ model_type = SI
    /\ latency_period = 1
    /\ exposed = <<ZeroRaster, ZeroRaster>>
    /\ infected \in [Cells -> 0 .. MaxCohort]
    /\ mortality_tracker_vector \in [1 .. MaxCohorts -> [Cells -> 0 .. MaxCohort]]
    /\ susceptible =
           [c \in Cells |->
               LET tracked == CohortSum(mortality_tracker_vector, c, MaxCohorts)
               IN  IF tracked > infected[c] THEN tracked - infected[c] ELSE 0]
    /\ total_plants = [c \in Cells |-> susceptible[c] + infected[c]]
    /\ mortality = ZeroRaster
    /\ dispersers = ZeroRaster
    /\ outside_dispersers = <<>>
    /\ call \in {[op |-> "init", mortality_rate |-> rate] : rate \in RateNums \ {0}}
    /\ calls = 0

\* the call of one more year, with the rate of the run
MortalityNextYear ==
    LET st == Mortality(infected, call.mortality_rate, Len(mortality_tracker_vector) - 1, 0,
                        mortality, mortality_tracker_vector)
    IN  /\ infected' = st.i
        /\ mortality' = st.m
        /\ mortality_tracker_vector' = st.v
        /\ call' = [op |-> "mortality", mortality_rate |-> call.mortality_rate]
        /\ UNCHANGED <<model_type, latency_period, exposed, susceptible, total_plants,
                       dispersers, outside_dispersers, calls>>

NextDecay == MortalityNextYear

\* the caller calls mortality every year: the call is never postponed forever
SpecDecay == InitDecay /\ [][NextDecay]_vars /\ WF_vars(MortalityNextYear)

----------------------------------------------------------------------------
(* A run of the SI model over grids whose one mortality cohort holds exactly
   the infected hosts of every cell, as disperse leaves them when every infected
   host was established in that year.  Every cell holds MaxPlants hosts, and
   generate has produced one disperser in each cell with infected hosts. *)

MaxSeason == 3

InitCohorts ==
    /\ model_type = SI
    /\ latency_period = 1
    /\ exposed = <<ZeroRaster, ZeroRaster>>
    /\ total_plants = [c \in Cells |-> MaxPlants]
    /\ infected \in [Cells -> 0 .. MaxPlants]
    /\ susceptible = [c \in Cells |-> total_plants[c] - infected[c]]
    /\ mortality_tracker_vector = <<infected>>
    /\ mortality = ZeroRaster
    /\ dispersers = [c \in Cells |-> IF infected[c] > 0 THEN 1 ELSE 0]
    /\ outside_dispersers = <<>>
    /\ call = [op |-> "init"]
    /\ calls = 0

NextCohorts ==
    \/ Called(MaxSeason) /\ Remove
    \/ Called(MaxSeason) /\ DisperseCall
    \/ Called(MaxSeason) /\ MovementCall
    \/ Called(MaxSeason) /\ MortalityCall

SpecCohorts == InitCohorts /\ [][NextCohorts]_vars

----------------------------------------------------------------------------
(* The model type of a run is read from a name.  The names tried are made of a
   first word, a separator and a second word, which yields every accepted name,
   the empty string and names that differ from an accepted one in case,
   separator or a word; the C string overload is also given the null pointer. *)

FirstWords == {"", "S", "s", "Susceptible", "susceptible"}
Separators == {"", "-", "_", " "}
SecondWords == {"", "I", "EI", "Infected", "infected", "ExposedInfected", "exposed-infected", "exposed_infected"}
Texts == {first \o separator \o second : first \in FirstWords, separator \in Separators, second \in SecondWords}
CStrings == {NullCString} \cup {CString(chars) : chars \in Texts}

InitModelType ==
    /\ model_type \in ModelType
    /\ latency_period = 1
    /\ exposed = <<ZeroRaster, ZeroRaster>>
    /\ total_plants = ZeroRaster
    /\ infected = ZeroRaster
    /\ susceptible = ZeroRaster
    /\ mortality_tracker_vector = <<ZeroRaster>>
    /\ mortality = ZeroRaster
    /\ dispersers = ZeroRaster
    /\ outside_dispersers = <<>>
    /\ call \in {[op |-> "init", text |-> text] : text \in CStrings}
    /\ calls = 0

\* the caller assigns the returned value to its model type; an exception leaves
\* it as it was
ModelTypeResult(result) ==
    /\ model_type' = (IF result \in ModelType THEN result ELSE model_type)
    /\ UNCHANGED <<latency_period, exposed, infected, susceptible, total_plants,
                   mortality_tracker_vector, mortality, dispersers, outside_dispersers>>

\* a call of the std::string overload
ModelTypeFromString ==
    /\ ~call.text.null
    /\ LET result == model_type_from_string(call.text.chars)
       IN  /\ call' = [op |-> "model_type_from_string", text |-> call.text,
                       result |-> result]
           /\ ModelTypeResult(result)

\* a call of the const char* overload
ModelTypeFromCString ==
    LET result == model_type_from_c_string(call.text)
    IN  /\ call' = [op |-> "model_type_from_c_string", text |-> call.text,
                    result |-> result]
        /\ ModelTypeResult(result)

NextModelType ==
    \/ Called(1) /\ ModelTypeFromString
    \/ Called(1) /\ ModelTypeFromCString

SpecModelType == InitModelType /\ [][NextModelType]_vars

----------------------------------------------------------------------------
(* Raster objects: width (columns), height (rows), the two resolutions and the
   array data, indexed from 0 in row-major order *)

MaxWidth == 2
MaxHeight == 3

\* the cell values and the resolutions tried
Values == 0 .. 1
Resolutions == -1 .. 1

\* Raster(): an empty raster, data = NULL
RasterDefault ==
    [width |-> 0, height |-> 0, w_e_res |-> 0, n_s_res |-> 0, data |-> <<>>]

\* Raster(int width, int height, int w_e_res, int n_s_res): new Number[width * height]
\* leaves the cells uninitialized, so they hold any value
RasterSized(width, height, w_e_res, n_s_res) ==
    {[width |-> width, height |-> height, w_e_res |-> w_e_res, n_s_res |-> n_s_res,
      data |-> data] : data \in [0 .. width * height - 1 -> Values]}

\* Raster(int width, int height, int w_e_res, int n_s_res, int value):
\* new Number[width * height]{value} sets the first cell to value, the others to 0
RasterFilled(width, height, w_e_res, n_s_res, value) ==
    [width |-> width, height |-> height, w_e_res |-> w_e_res, n_s_res |-> n_s_res,
     data |-> [k \in 0 .. width * height - 1 |-> IF k = 0 THEN value ELSE 0]]

\* Raster(std::initializer_list<std::initializer_list<Number>> l): l is the
\* list of rows; the resolutions are 1
RasterFromList(l) ==
    LET width == Len(l[1])
        height == Len(l)
    IN  [width |-> width, height |-> height, w_e_res |-> 1, n_s_res |-> 1,
         data |-> [k \in 0 .. width * height - 1 |->
                      l[(k \div width) + 1][(k % width) + 1]]]

\* the lists of height rows of width values
RowLists(width, height) == [1 .. height -> [1 .. width -> Values]]

\* the first index k .. n - 1 at which x and y differ, or n
RECURSIVE FirstMismatch(_, _, _, _)
FirstMismatch(x, y, k, n) ==
    IF k = n THEN n
    ELSE IF x[k] # y[k] THEN k ELSE FirstMismatch(x, y, k + 1, n)

\* the loops of operator== and operator!=: i < width and j < width read
\* data[i * width + j], the indices 0 .. width * width - 1 in order, up to the
\* first difference.  An index past width * height - 1 is outside both arrays
\* and reads any value.  The result holds mismatch (whether a difference was
\* found) and read (the indices read).
RasterScan(this, other) ==
    LET n == this.width * this.width
        size == this.width * this.height
        outside == size .. n - 1
    IN  {LET x == [k \in 0 .. n - 1 |-> IF k < size THEN this.data[k] ELSE beyond_this[k]]
             y == [k \in 0 .. n - 1 |-> IF k < size THEN other.data[k] ELSE beyond_other[k]]
             m == FirstMismatch(x, y, 0, n)
         IN  [mismatch |-> m < n, read |-> 0 .. Min(m, n - 1)] :
            beyond_this \in [outside -> Values], beyond_other \in [outside -> Values]}

\* the grids that no raster call touches
RasterFrame ==
    UNCHANGED <<model_type, latency_period, exposed, infected, susceptible, total_plants,
                mortality_tracker_vector, mortality, dispersers, outside_dispersers>>

RasterConstructDefault ==
    /\ call' = [op |-> "Raster", raster |-> RasterDefault]
    /\ RasterFrame

RasterConstructSized ==
    \E width \in 1 .. MaxWidth, height \in 1 .. MaxHeight :
        \E w_e_res \in Resolutions, n_s_res \in Resolutions :
            \E raster \in RasterSized(width, height, w_e_res, n_s_res) :
                /\ call' = [op |-> "Raster", raster |-> raster]
                /\ RasterFrame

RasterConstructFilled ==
    \E width \in 1 .. MaxWidth, height \in 1 .. MaxHeight, value \in Values :
        \E w_e_res \in Resolutions, n_s_res \in Resolutions :
            /\ call' = [op |-> "Raster",
                        raster |-> RasterFilled(width, height, w_e_res, n_s_res, value)]
            /\ RasterFrame

RasterConstructFromList ==
    \E width \in 1 .. MaxWidth, height \in 1 .. MaxHeight :
        \E l \in RowLists(width, height) :
            /\ call' = [op |-> "Raster", raster |-> RasterFromList(l)]
            /\ RasterFrame

\* a == b
RasterEqual ==
    \E scan \in RasterScan(call.a, call.b) :
        /\ call' = [op |-> "operator==", a |-> call.a, b |-> call.b,
                    result |-> ~scan.mismatch, read |-> scan.read]
        /\ RasterFrame

\* a != b
RasterNotEqual ==
    \E scan \in RasterScan(call.a, call.b) :
        /\ call' = [op |-> "operator!=", a |-> call.a, b |-> call.b,
                    result |-> scan.mismatch, read |-> scan.read]
        /\ RasterFrame

\* no raster has been constructed yet
InitRasterConstruct ==
    /\ model_type = SI
    /\ latency_period = 1
    /\ exposed = <<ZeroRaster, ZeroRaster>>
    /\ total_plants = ZeroRaster
    /\ infected = ZeroRaster
    /\ susceptible = ZeroRaster
    /\ mortality_tracker_vector = <<ZeroRaster>>
    /\ mortality = ZeroRaster
    /\ dispersers = ZeroRaster
    /\ outside_dispersers = <<>>
    /\ call = [op |-> "init"]
    /\ calls = 0

NextRasterConstruct ==
    \/ Called(1) /\ RasterConstructDefault
    \/ Called(1) /\ RasterConstructSized
    \/ Called(1) /\ RasterConstructFilled
    \/ Called(1) /\ RasterConstructFromList

SpecRasterConstruct == InitRasterConstruct /\ [][NextRasterConstruct]_vars

\* two rasters a and b of the same width and height, built from lists of rows
InitRasterEqual ==
    /\ model_type = SI
    /\ latency_period = 1
    /\ exposed = <<ZeroRaster, ZeroRaster>>
    /\ total_plants = ZeroRaster
    /\ infected = ZeroRaster
    /\ susceptible = ZeroRaster
    /\ mortality_tracker_vector = <<ZeroRaster>>
    /\ mortality = ZeroRaster
    /\ dispersers = ZeroRaster
    /\ outside_dispersers = <<>>
    /\ \E width \in 1 .. MaxWidth, height \in 1 .. MaxHeight :
        \E la \in RowLists(width, height), lb \in RowLists(width, height) :
            call = [op |-> "init", a |-> RasterFromList(la), b |-> RasterFromList(lb)]
    /\ calls = 0

NextRasterEqual ==
    \/ Called(1) /\ RasterEqual
    \/ Called(1) /\ RasterNotEqual

SpecRasterEqual == InitRasterEqual /\ [][NextRasterEqual]_vars

----------------------------------------------------------------------------
(* Properties *)

\* the hosts of a cell over all exposed cohorts
ExposedAt(e, c) == CohortSum(e, c, Len(e))

\* what the oldest cohort hands to infected when infect runs on queue e
OldestAt(e, c) == IF Len(e) >= latency_period + 1 THEN e[1][c] ELSE 0

DisperseOps == {"disperse", "disperse_and_infect"}

\* C1: disperse_and_infect hands disperse the compartment of the model type: in
\* the SI model every establishment is added to infected; in the SEI model every
\* establishment is added to the exposed queue and infected changes only by the
\* oldest cohort that the infect step moves into it.
C1_DisperseTarget ==
    [][call'.op = "disperse_and_infect" =>
        \A c \in Cells :
            LET established == susceptible[c] - susceptible'[c]
            IN  IF model_type = SI
                THEN infected'[c] = infected[c] + established
                ELSE /\ infected'[c] = infected[c] + OldestAt(exposed, c)
                     /\ ExposedAt(exposed', c) =
                            ExposedAt(exposed, c) + established - OldestAt(exposed, c)]_vars

\* the compartment a call of disperse is given as exposed_or_infected
TargetOf(inf, e, mtype) == IF mtype = SI THEN inf ELSE e[Len(e)]

\* C2: a call of disperse takes every established host out of susceptible and
\* puts it into the target compartment of the same cell, a cell of the grid:
\* at every cell susceptible does not grow, the target grows by what
\* susceptible loses, and susceptible + target is unchanged.
C2_EstablishmentConservation ==
    [][call'.op = "disperse" =>
        /\ DOMAIN susceptible' = Cells
        /\ DOMAIN TargetOf(infected', exposed', model_type) = Cells
        /\ \A c \in Cells :
            LET before == TargetOf(infected, exposed, model_type)[c]
                after == TargetOf(infected', exposed', model_type)[c]
            IN  /\ susceptible'[c] <= susceptible[c]
                /\ after - before = susceptible[c] - susceptible'[c]
                /\ susceptible'[c] + after = susceptible[c] + before]_vars

\* a call of disperse in which a disperser established
C2_Witness ==
    /\ call.op = "disperse"
    /\ call.established > 0

\* C3: disperse appends every kernel result outside the grid once to
\* outside_dispersers, in the order drawn, and nothing else; such a disperser
\* never establishes, and a call whose dispersers all leave the grid changes no grid.
C3_OutsideDispersers ==
    [][call'.op \in DisperseOps =>
        /\ outside_dispersers' = outside_dispersers \o call'.outside
        /\ call'.established + Len(call'.outside) <= Len(Sources(dispersers, NumCells))
        /\ (call'.op = "disperse"
              /\ Len(call'.outside) = Len(Sources(dispersers, NumCells)))
           => UNCHANGED <<susceptible, infected, exposed, mortality_tracker_vector,
                          total_plants>>]_vars

\* a call of disperse with a disperser that left the grid and one that established
C3_Witness ==
    /\ call.op = "disperse"
    /\ Len(call.outside) > 0
    /\ call.established > 0
    /\ Len(outside_dispersers) > 0

\* C4: no disperser establishes at a cell whose total_plants is 0.
C4_ZeroTotalPlants ==
    [][call'.op \in DisperseOps =>
        \A c \in Cells :
            total_plants[c] = 0 => susceptible'[c] = susceptible[c]]_vars

\* C5: every value of susceptible, of each exposed cohort, of infected, of
\* total_plants, of each mortality cohort and of the cumulative mortality is >= 0.
C5_NonNegative ==
    \A c \in Cells :
        /\ susceptible[c] >= 0
        /\ infected[c] >= 0
        /\ total_plants[c] >= 0
        /\ mortality[c] >= 0
        /\ \A k \in 1 .. Len(exposed) : exposed[k][c] >= 0
        /\ \A y \in 1 .. Len(mortality_tracker_vector) : mortality_tracker_vector[y][c] >= 0

\* C6: at every cell susceptible + exposed + infected never exceeds total_plants.
C6_Capacity ==
    \A c \in Cells :
        susceptible[c] + ExposedAt(exposed, c) + infected[c] <= total_plants[c]

\* C7: remove empties infected into susceptible in every cell whose temperature
\* is below the lethal temperature and leaves both unchanged in every other cell.
C7_Remove ==
    [][call'.op = "remove" =>
        \A c \in Cells :
            IF call'.temperature[c] < call'.lethal_temperature
            THEN /\ infected'[c] = 0
                 /\ susceptible'[c] = susceptible[c] + infected[c]
            ELSE /\ infected'[c] = infected[c]
                 /\ susceptible'[c] = susceptible[c]]_vars

\* a remove that moved infected hosts back while a cell at the lethal
\* temperature kept its infected hosts
C7_Witness ==
    /\ call.op = "remove"
    /\ call.removed > 0
    /\ \E c \in Cells :
        /\ call.temperature[c] >= call.lethal_temperature
        /\ infected[c] > 0

\* C8: in the SEI model remove also moves the hosts of every exposed cohort of a
\* cold cell back into susceptible and zeroes the cohorts there.
C8_RemoveExposed ==
    [][(call'.op = "remove" /\ model_type = SEI) =>
        \A c \in Cells :
            call'.temperature[c] < call'.lethal_temperature =>
                /\ \A k \in 1 .. Len(exposed') : exposed'[k][c] = 0
                /\ susceptible'[c] =
                       susceptible[c] + infected[c] + ExposedAt(exposed, c)]_vars

\* C9: in the SEI model with at least latency_period + 1 grids in the queue,
\* infect adds the oldest cohort to infected and to the mortality tracker, zeroes
\* it and rotates the queue left by one; the queue keeps its length and
\* infected + exposed is unchanged at every cell.  Otherwise infect changes nothing.
C9_Infect ==
    [][call'.op = "infect" =>
        LET y == call'.year
        IN  /\ UNCHANGED <<susceptible, total_plants, mortality, dispersers,
                           outside_dispersers>>
            /\ \A z \in 1 .. Len(mortality_tracker_vector) :
                   z # y => mortality_tracker_vector'[z] = mortality_tracker_vector[z]
            /\ IF model_type = SEI /\ Len(exposed) >= latency_period + 1
               THEN /\ infected' = RasterPlus(infected, exposed[1])
                    /\ mortality_tracker_vector'[y] =
                           RasterPlus(mortality_tracker_vector[y], exposed[1])
                    /\ exposed' = Tail(exposed) \o <<ZeroRaster>>
                    /\ Len(exposed') = Len(exposed)
                    /\ \A c \in Cells :
                           infected'[c] + ExposedAt(exposed', c) =
                               infected[c] + ExposedAt(exposed, c)
               ELSE UNCHANGED <<exposed, infected, mortality_tracker_vector>>]_vars

\* an infect that moved hosts of the oldest cohort into infected
C9_Witness ==
    /\ call.op = "infect"
    /\ call.advanced > 0
    /\ \E c \in Cells : exposed[Len(exposed)][c] = 0 /\ infected[c] > 1

\* complete steps made so far in a run of SpecLatency
StepsDone == IF call.op = "disperse_and_infect" THEN calls ELSE calls \div 2

\* what infected holds at cell c after StepsDone steps that each exposed
\* dispersers[c] hosts there
InfectedAfterLatency(c) ==
    dispersers[c] * (IF StepsDone > latency_period
                     THEN StepsDone - latency_period ELSE 0)

\* C10: with E hosts exposed per step at a cell, a cohort reaches infected in the
\* step latency_period steps after its exposure and not before: after n steps
\* infected holds E * (n - latency_period) hosts (0 while n <= latency_period),
\* and right after the latency is advanced the recycled newest slot reads zero.
C10_LatencyTiming ==
    \A c \in Cells :
        /\ infected[c] = InfectedAfterLatency(c)
        /\ call.op \in {"infect", "disperse_and_infect"} =>
               exposed[Len(exposed)][c] = 0

\* The same timing for the runs whose steps are a call of disperse on
\* exposed.back() followed by a call of infect.
LatencyTimingOfSeparateCalls ==
    call.op # "disperse_and_infect" =>
        \A c \in Cells :
            /\ infected[c] = InfectedAfterLatency(c)
            /\ call.op = "infect" => exposed[Len(exposed)][c] = 0

\* the rotation boundary step of such a run with a latency: the infect of step
\* latency_period + 1 has just moved the first cohort into infected
LatencyBoundaryReached ==
    /\ call.op = "infect"
    /\ latency_period > 0
    /\ StepsDone = latency_period + 1
    /\ call.advanced > 0
    /\ \E c \in Cells : infected[c] = dispersers[c] /\ infected[c] > 0

\* C11 as stated: every call of disperse adds each established host to the
\* current mortality cohort of the cell where it established.
C11_TrackerEveryModel ==
    [][call'.op = "disperse" =>
        \A c \in Cells :
            mortality_tracker_vector'[call'.year][c] =
                mortality_tracker_vector[call'.year][c]
                    + (susceptible[c] - susceptible'[c])]_vars

\* C11: in the SI model a call of disperse adds each established host to the
\* current mortality cohort of the cell where it established; in the SEI model
\* disperse leaves the mortality cohort as it is (infect adds the hosts when
\* their cohort becomes infected).  No other mortality cohort changes.
C11_TrackerByModel ==
    [][call'.op = "disperse" =>
        /\ \A z \in 1 .. Len(mortality_tracker_vector) :
               z # call'.year => mortality_tracker_vector'[z] = mortality_tracker_vector[z]
        /\ \A c \in Cells :
               mortality_tracker_vector'[call'.year][c] =
                   mortality_tracker_vector[call'.year][c]
                       + (IF model_type = SI THEN susceptible[c] - susceptible'[c] ELSE 0)]_vars

\* a disperse of the SI model that established a host and counted it in the
\* mortality cohort of the call
C11_Witness ==
    /\ call.op = "disperse"
    /\ model_type = SI
    /\ call.established > 0
    /\ \E c \in Cells : mortality_tracker_vector[call.year][c] > 0

\* C12: generate overwrites every cell of dispersers: a cell with infected <= 0
\* gets 0 and takes no sample; a cell with infected = n > 0 takes exactly n
\* samples and gets their sum, the samples being 0 unless reproductive_rate,
\* times the cell's own weather coefficient when weather is used, is positive;
\* infected is not modified.
C12_Generate ==
    [][call'.op = "generate" =>
        /\ infected' = infected
        /\ \A c \in Cells :
            LET taken == call'.draws[c]
                mean2 == IF call'.weather
                         THEN call'.rate * call'.weather_coefficient[c]
                         ELSE call'.rate
            IN  IF infected[c] <= 0
                THEN dispersers'[c] = 0 /\ Len(taken) = 0
                ELSE /\ Len(taken) = infected[c]
                     /\ dispersers'[c] = SumDraws(taken, Len(taken))
                     /\ mean2 = 0 => dispersers'[c] = 0]_vars

\* a generate that replaced a prior value by 0 in a cell without infected hosts
\* and summed two samples, one of them positive, in a cell with two
C12_Witness ==
    /\ call.op = "generate"
    /\ \E c \in Cells : infected[c] <= 0 /\ dispersers[c] = 0
    /\ \E c \in Cells :
        /\ infected[c] = 2
        /\ Len(call.draws[c]) = 2
        /\ call.draws[c][1] # call.draws[c][2]
        /\ dispersers[c] > 0

\* C13: a call of movement leaves the grid-wide sums of susceptible, of
\* infected and of total_plants unchanged, whatever the samples.
C13_MovementConservation ==
    [][call'.op = "movement" =>
        /\ Total(susceptible') = Total(susceptible)
        /\ Total(infected') = Total(infected)
        /\ Total(total_plants') = Total(total_plants)]_vars

\* a movement of one row that brought hosts to another cell, a susceptible one among them
C13_Witness ==
    /\ call.op = "movement"
    /\ call.ret = call.last_index + 1
    /\ LET moved == call.movements[call.ret]
       IN  /\ moved.from # moved.to
           /\ infected[moved.to] > MaxPlants - susceptible[moved.to]
           /\ susceptible[moved.to] > 0
           /\ total_plants[moved.to] > MaxPlants

\* the number of hosts the row can move: min(requested, total_plants(source))
Movable(moved, total) == Min(moved.hosts, total[moved.from])

C15_ScanStopsAtLaterStep ==
    [][call'.op = "movement" =>
        /\ \A k \in call'.last_index + 1 .. call'.ret :
               call'.movement_schedule[k] = call'.step
        /\ \/ call'.ret = Len(call'.movements)
           \/ call'.movement_schedule[call'.ret + 1] > call'.step]_vars

\* C16: a call with last_index <= movements.size() returns r with
\* last_index <= r <= movements.size(), so the cursor the caller feeds back
\* never moves backwards.
C16_CursorMonotone ==
    [][call'.op = "movement" =>
        /\ call'.last_index = call.ret
        /\ call'.last_index <= call'.ret
        /\ call'.ret <= Len(call'.movements)
        /\ call.ret <= call'.ret]_vars

\* a later call that started behind the first row and consumed the next one
C16_Witness ==
    /\ call.op = "movement"
    /\ call.step > 0
    /\ call.last_index > 0
    /\ call.ret > call.last_index
    /\ call.ret = Len(call.movements)

C19_MortalityBeforeOnset ==
    [][(call'.op = "mortality" /\ call'.current_year < call'.first_mortality_year) =>
        UNCHANGED <<infected, mortality, mortality_tracker_vector>>]_vars

\* a call before the first mortality year, with a positive rate, on a cell that
\* holds infected hosts and hosts in every cohort
C19_Witness ==
    /\ call.op = "mortality"
    /\ call.current_year < call.first_mortality_year
    /\ call.mortality_rate > 0
    /\ \E c \in Cells :
        /\ infected[c] > 0
        /\ \A y \in 1 .. Len(mortality_tracker_vector) : mortality_tracker_vector[y][c] > 0

\* round(mortality_rate * cohort_value) for the rate rate / 2 and a cohort
\* value >= 0, halves rounded away from zero
RoundedDecrement(rate, tracked) == (rate * tracked + 1) \div 2

\* the sum of RoundedDecrement over the cohorts 1 .. n of cell c
RECURSIVE RoundedDecrements(_, _, _, _)
RoundedDecrements(rate, tracker_vector, c, n) ==
    IF n = 0 THEN 0
    ELSE RoundedDecrement(rate, tracker_vector[n][c])
         + RoundedDecrements(rate, tracker_vector, c, n - 1)

\* C20: from first_mortality_year on, a call takes
\* round(mortality_rate * cohort_value) hosts out of every cohort of index
\* 0 .. current_year - first_mortality_year and out of infected at the cell,
\* and adds them to the cumulative mortality.
C20_MortalityDecrement ==
    [][(call'.op = "mortality" /\ call'.current_year >= call'.first_mortality_year) =>
        LET n == call'.current_year - call'.first_mortality_year + 1
            rate == call'.mortality_rate
        IN  \A c \in Cells :
                /\ \A y \in 1 .. Len(mortality_tracker_vector) :
                       mortality_tracker_vector'[y][c] =
                           mortality_tracker_vector[y][c]
                               - (IF y <= n
                                  THEN RoundedDecrement(rate, mortality_tracker_vector[y][c])
                                  ELSE 0)
                /\ mortality'[c] =
                       mortality[c] + RoundedDecrements(rate, mortality_tracker_vector, c, n)
                /\ infected'[c] =
                       infected[c] - RoundedDecrements(rate, mortality_tracker_vector, c, n)]_vars

\* C21: with a rate 0 < mortality_rate <= 1 and a call of mortality every year,
\* every cohort of every cell eventually reaches zero and stays at zero.
C21_DecayTerminates ==
    \A c \in Cells : \A y \in 1 .. MaxCohorts :
        <>[](mortality_tracker_vector[y][c] = 0)

\* C22: a call of mortality never takes infected below zero: in a cell where
\* infected was >= 0 before the call, infected is >= 0 after it.
C22_InfectedNotNegative ==
    [][call'.op = "mortality" =>
        \A c \in Cells : infected[c] >= 0 => infected'[c] >= 0]_vars

\* C27: at every cell the sum of all mortality cohorts is at most the number of
\* infected hosts, after any sequence of calls.
C27_CohortsWithinInfected ==
    \A c \in Cells :
        CohortSum(mortality_tracker_vector, c, Len(mortality_tracker_vector)) <= infected[c]

\* the names of the SI model and of the SEI model
NamesOfSI == {"SI", "SusceptibleInfected", "susceptible-infected", "susceptible_infected"}
NamesOfSEI == {"SEI", "SusceptibleExposedInfected", "susceptible-exposed-infected", "susceptible_exposed_infected"}

\* C23: model_type_from_string returns SusceptibleInfected for exactly the four
\* names of the SI model, SusceptibleExposedInfected for exactly the four names
\* of the SEI model, and throws std::invalid_argument for every other text, the
\* empty string and the null C string included.
C23_ModelTypeFromString ==
    (call.op \in {"model_type_from_string", "model_type_from_c_string"}) =>
        /\ call.result = SI <=> (~call.text.null /\ call.text.chars \in NamesOfSI)
        /\ call.result = SEI <=> (~call.text.null /\ call.text.chars \in NamesOfSEI)
        /\ call.result \in {SI, SEI, InvalidArgument}
        /\ call.result \in ModelType => model_type = call.result

\* the const char* overload was given the null pointer and has thrown
C23_Witness ==
    /\ call.op = "model_type_from_c_string"
    /\ call.text.null
    /\ call.result = InvalidArgument

\* C24: no constructed raster has a west-east or north-south resolution that is
\* zero or negative (construction with such a resolution is an error).
C24_ResolutionPositive ==
    call.op = "Raster" => (call.raster.w_e_res > 0 /\ call.raster.n_s_res > 0)

\* C25: for two rasters of the same width and height, a == b is true exactly
\* when every cell of a equals the same cell of b, a != b is true exactly when
\* some cell differs, and only indices inside the rasters are read.
C25_RasterEquality ==
    /\ call.op = "operator==" => (call.result <=> (call.a.data = call.b.data))
    /\ call.op = "operator!=" => (call.result <=> (call.a.data # call.b.data))
    /\ call.op \in {"operator==", "operator!="} =>
           call.read \subseteq 0 .. call.a.width * call.a.height - 1

\* C26: a call of disperse_and_infect leaves susceptible + all exposed cohorts
\* + infected unchanged at every cell and decreases infected at no cell, in
\* both model types and in every step of a run.
C26_StepConservation ==
    [][call'.op = "disperse_and_infect" =>
        \A c \in Cells :
            /\ susceptible'[c] + ExposedAt(exposed', c) + infected'[c]
                   = susceptible[c] + ExposedAt(exposed, c) + infected[c]
            /\ infected'[c] >= infected[c]]_vars

\* C28: in the caller's loop over ascending steps, with the returned cursor fed
\* into the next call, every row is consumed once the step has reached the
\* largest scheduled step: a call at such a step returns movements.size(),
\* also when the caller skipped steps or started after the first scheduled step.
C28_MovementProgress ==
    [][(/\ call'.op = "movement"
        /\ Len(call'.movements) > 0
        /\ call'.step >= call'.movement_schedule[Len(call'.movements)]) =>
            call'.ret = Len(call'.movements)]_vars

====
